---- MODULE Spec2Model ----
(***************************************************************************)
(* A model of src/vggt_to_colmap.py: the point aggregator                  *)
(* filter_and_prepare_points (with hash_point and the three classifier     *)
(* heuristics) and the text and binary COLMAP writers.                     *)
(*                                                                         *)
(* Numbers.  World coordinates are held as integers in units of 1/200      *)
(* world unit (half a quantization cell), so that point * 100 is a         *)
(* multiple of 1/2 and np.round's round-half-to-even is exercised.  A      *)
(* non-finite coordinate is one of the codes NaN, Inf.  Confidences are    *)
(* integers; the cutoff pct / 100 * max is compared after multiplying      *)
(* both sides by 100.  Colour channels are integers 0..255 (uint8).        *)
(* Python indices are kept 0-based: images are functions over 0..N-1 and   *)
(* grids functions over 0..H-1 and 0..W-1; Python lists are sequences,     *)
(* so list position k is sequence position k + 1.                          *)
(***************************************************************************)
EXTENDS Integers, Sequences, FiniteSets, TLC

VARIABLES
    world_points,      \* predictions["world_points_from_depth"]: image -> y -> x -> <<X, Y, Z>>
    confidences,       \* predictions["depth_conf"]: image -> y -> x -> confidence
    original_images,   \* predictions["original_images"]: image -> y -> x -> <<r, g, b>>
    conf_pct,          \* the conf_threshold argument, a percentage
    stride,            \* the stride argument
    mask_sky, mask_black_bg, mask_white_bg,   \* the three filter flags
    pc,                \* "loop", "done" (returned), "written"
    img_idx, yi, xi,   \* loop position: image, and positions in range(0, h, stride), range(0, w, stride)
    points3D,          \* list of point entries
    point_indices,     \* dict: point hash -> index in points3D
    image_points2D,    \* image -> list of <<x, y, point index>>
    visits,            \* history: the samples visited so far, in order
    files              \* what the writers wrote: [format, cameras, images, points3D]

vars == <<world_points, confidences, original_images, conf_pct, stride,
          mask_sky, mask_black_bg, mask_white_bg, pc, img_idx, yi, xi,
          points3D, point_indices, image_points2D, visits, files>>

inputs == <<world_points, confidences, original_images, conf_pct, stride,
            mask_sky, mask_black_bg, mask_white_bg>>

------------------------------------------------------------------------------
(* Bounds of the model. *)

NumImages == 2      \* images per run
MaxDim    == 4      \* grids are H x W with H, W in 1..MaxDim
MaxStride == 2      \* stride in 1..MaxStride
MaxShift  == 1      \* displacement of the view from one image to the next, in 1/200 units
MaxStep   == 1      \* spacing of neighbouring pixels' world points, in 1/200 units
MaxConf   == 2      \* confidences lie in -MaxConf..MaxConf

(* Program constants. *)

Scale == 100                \* hash_point(point3D, scale=100)
SkyHeight == 200            \* point[1] > 1.0, in 1/200 units
BlackThreshold == 30        \* is_black_bg_point(rgb, threshold=30)
WhiteThreshold == 230       \* is_white_bg_point(rgb, threshold=230)
WhiteStd == 15              \* np.std(rgb) < 15

------------------------------------------------------------------------------
(* Python and numpy primitives. *)

Images == DOMAIN world_points                    \* range(len(world_points))
GridH(i) == Cardinality(DOMAIN world_points[i])          \* world_points[i].shape[0]
GridW(i) == Cardinality(DOMAIN world_points[i][0])       \* world_points[i].shape[1]
OrigH(i) == Cardinality(DOMAIN original_images[i])       \* orig_img.shape[0]
OrigW(i) == Cardinality(DOMAIN original_images[i][0])    \* orig_img.shape[1]

\* A range that ignores its step.
RECURSIVE RangeUnitStep(_, _, _)
RangeUnitStep(start, stop, step) ==
    IF start >= stop THEN << >>
    ELSE <<start>> \o RangeUnitStep(start + 1, stop, step)

\* range(start, stop, step) for step >= 1, as the list of its values.
RECURSIVE Range(_, _, _)
Range(start, stop, step) ==
    IF start >= stop THEN << >>
    ELSE <<start>> \o Range(start + step, stop, step)

Min2(a, b) == IF a <= b THEN a ELSE b

\* The concatenation of a list of lists.
RECURSIVE Concat(_)
Concat(seqs) == IF seqs = << >> THEN << >> ELSE Head(seqs) \o Concat(Tail(seqs))

\* np.max over a non-empty set of values.
MaxOf(S) == CHOOSE m \in S : \A v \in S : v <= m

\* The float values nan and inf, coded as integers no finite coordinate of
\* the model takes.
NaN == 2^20
Inf == 2^20 + 1

\* np.isfinite of one coordinate.
IsFinite(c) == c \notin {NaN, Inf}

\* np.round(n / d) for d > 0: to the nearest integer, halves to the even one.
RoundHalfEven(n, d) ==
    LET q == n \div d
        r == n - q * d
    IN  IF 2 * r < d THEN q
        ELSE IF 2 * r > d THEN q + 1
        ELSE IF q % 2 = 0 THEN q ELSE q + 1

\* hash() of a Python int of small magnitude: the value itself, except that
\* -1 is reserved as the error code and hashes to -2.
HashInt(n) == IF n = -1 THEN -2 ELSE n

\* hash() of a tuple mixes the hashes of its elements and nothing else; the
\* mix is kept as the tuple of element hashes, so two tuples collide here
\* only if their elements' hashes agree position by position.
HashTuple(t) == [k \in DOMAIN t |-> HashInt(t[k])]

\* tuple(np.round(point * scale).astype(int)); a coordinate c stands for c / 200.
Quantized(point, scale) == [k \in DOMAIN point |-> RoundHalfEven(point[k] * scale, 200)]

\* hash_point(point, scale)
hash_point(point, scale) == HashTuple(Quantized(point, scale))

------------------------------------------------------------------------------
(* Classifier heuristics.  rgb is <<r, g, b>>; Python's point[1] is the    *)
(* second coordinate.  b > 1.2 * r is compared as 5 * b > 6 * r; the two   *)
(* agree on every pair of uint8 values.  np.mean(rgb) < t is sum < 3 * t,  *)
(* and np.std(rgb) < s is 3 * sum of squares - sum^2 < 9 * s^2 (the        *)
(* population variance times 9).                                           *)

Sum3(rgb) == rgb[1] + rgb[2] + rgb[3]
SumSq3(rgb) == rgb[1] * rgb[1] + rgb[2] * rgb[2] + rgb[3] * rgb[3]

is_sky_point(point, rgb) ==
    /\ point[2] > SkyHeight
    /\ 5 * rgb[3] > 6 * rgb[1]
    /\ 5 * rgb[3] > 6 * rgb[2]

is_black_bg_point(rgb) == Sum3(rgb) < 3 * BlackThreshold

is_white_bg_point(rgb) ==
    /\ Sum3(rgb) > 3 * WhiteThreshold
    /\ 3 * SumSq3(rgb) - Sum3(rgb) * Sum3(rgb) < 9 * WhiteStd * WhiteStd

------------------------------------------------------------------------------
(* filter_and_prepare_points.  The three containers are held together as   *)
(* agg = [points3D, point_indices, image_points2D]; Body is one pass of    *)
(* the innermost loop body on the sample (i, y, x) under percentage pct.   *)

\* max_conf = np.max(predictions["depth_conf"])
max_conf ==
    MaxOf(UNION {UNION {{confidences[i][y][x] : x \in DOMAIN confidences[i][y]}
                        : y \in DOMAIN confidences[i]} : i \in DOMAIN confidences})

\* confidences[img_idx, y, x] > conf_threshold, where
\* conf_threshold = pct / 100.0 * max_conf; both sides times 100.
PassesConfidence(i, y, x, pct) == 100 * confidences[i][y][x] > pct * max_conf

\* np.all(np.isfinite(point3D))
AllFinite(point) == \A k \in DOMAIN point : IsFinite(point[k])

\* rgb = orig_img[orig_y, orig_x] with orig_y = min(int(y * scale_y), orig_h - 1),
\* scale_y = orig_h / h, and the same for x.
SampleColor(i, y, x) ==
    LET orig_y == Min2((y * OrigH(i)) \div GridH(i), OrigH(i) - 1)
        orig_x == Min2((x * OrigW(i)) \div GridW(i), OrigW(i) - 1)
    IN  original_images[i][orig_y][orig_x]

\* The heuristics applied whatever the flags say.
MaskedIgnoringFlags(point, rgb) ==
    \/ is_sky_point(point, rgb)
    \/ is_black_bg_point(rgb)
    \/ is_white_bg_point(rgb)

\* The three "Apply filters" tests of the loop body: some enabled heuristic fires.
Masked(point, rgb) ==
    \/ mask_sky /\ is_sky_point(point, rgb)
    \/ mask_black_bg /\ is_black_bg_point(rgb)
    \/ mask_white_bg /\ is_white_bg_point(rgb)

\* The sample reaches the hashing code: none of the skips of the body is taken.
Accepted(i, y, x, pct) ==
    /\ PassesConfidence(i, y, x, pct)
    /\ AllFinite(world_points[i][y][x])
    /\ ~Masked(world_points[i][y][x], SampleColor(i, y, x))

\* A numbering that starts at 1 instead of 0.
NewPointIdxFromOne(agg) == Len(agg.points3D) + 1

\* point_idx = len(points3D): the id given to a new point.
NewPointIdx(agg) == Len(agg.points3D)

\* A track entry taken after the keypoint append instead of before it.
TrackEntryAfterAppend(agg, i) == <<i, Len(agg.image_points2D[i]) + 1>>

\* (img_idx, len(image_points2D[img_idx])): the track entry of the sample being added.
TrackEntry(agg, i) == <<i, Len(agg.image_points2D[i])>>

\* An update of an existing point that also takes the position and colour
\* of the sample being added.
AddPointLastWins(agg, i, y, x) ==
    LET point3D    == world_points[i][y][x]
        rgb        == SampleColor(i, y, x)
        point_hash == hash_point(point3D, Scale)
        is_new     == point_hash \notin DOMAIN agg.point_indices
        point_idx  == IF is_new THEN NewPointIdx(agg)
                      ELSE agg.point_indices[point_hash]
        indices    == IF is_new THEN agg.point_indices @@ (point_hash :> point_idx)
                      ELSE agg.point_indices
        point_entry == [id |-> point_idx, xyz |-> point3D, rgb |-> rgb,
                        error |-> 1, track |-> <<TrackEntry(agg, i)>>]
        points     == IF is_new THEN Append(agg.points3D, point_entry)
                      ELSE [agg.points3D EXCEPT
                                ![point_idx + 1].xyz = point3D,
                                ![point_idx + 1].rgb = rgb,
                                ![point_idx + 1].track = Append(@, TrackEntry(agg, i))]
    IN  [points3D |-> points,
         point_indices |-> indices,
         image_points2D |-> [agg.image_points2D EXCEPT ![i] =
                                Append(@, <<x, y, indices[point_hash]>>)]]

\* The body from "Generate a hash for this point" to the keypoint append.
AddPoint(agg, i, y, x) ==
    LET point3D    == world_points[i][y][x]
        rgb        == SampleColor(i, y, x)
        point_hash == hash_point(point3D, Scale)
        is_new     == point_hash \notin DOMAIN agg.point_indices
        point_idx  == IF is_new THEN NewPointIdx(agg)
                      ELSE agg.point_indices[point_hash]
        indices    == IF is_new THEN agg.point_indices @@ (point_hash :> point_idx)
                      ELSE agg.point_indices
        point_entry == [id |-> point_idx, xyz |-> point3D, rgb |-> rgb,
                        error |-> 1, track |-> <<TrackEntry(agg, i)>>]
        points     == IF is_new THEN Append(agg.points3D, point_entry)
                      ELSE [agg.points3D EXCEPT ![point_idx + 1].track =
                                Append(@, TrackEntry(agg, i))]
    IN  [points3D |-> points,
         point_indices |-> indices,
         image_points2D |-> [agg.image_points2D EXCEPT ![i] =
                                Append(@, <<x, y, indices[point_hash]>>)]]

\* A body whose skips are lost: every sample is added.
BodyWithoutSkips(agg, i, y, x, pct) == AddPoint(agg, i, y, x)

Body(agg, i, y, x, pct) ==
    IF Accepted(i, y, x, pct) THEN AddPoint(agg, i, y, x) ELSE agg

\* The containers as initialised before the loops.
EmptyAgg ==
    [points3D |-> << >>,
     point_indices |-> << >>,
     image_points2D |-> [i \in Images |-> << >>]]

Ys(i) == Range(0, GridH(i), stride)      \* range(0, h, stride)
Xs(i) == Range(0, GridW(i), stride)      \* range(0, w, stride)

\* The samples of the three nested loops, in the order the loops reach them.
AllSamples ==
    Concat([n \in 1..Cardinality(Images) |->
        Concat([a \in 1..Len(Ys(n - 1)) |->
            [b \in 1..Len(Xs(n - 1)) |-> <<n - 1, Ys(n - 1)[a], Xs(n - 1)[b]>>]])])

RECURSIVE RunFrom(_, _, _)
RunFrom(agg, samples, pct) ==
    IF samples = << >> THEN agg
    ELSE RunFrom(Body(agg, Head(samples)[1], Head(samples)[2], Head(samples)[3], pct),
                 Tail(samples), pct)

\* The whole call on the inputs of the state, under percentage pct.
filter_and_prepare_points(pct) == RunFrom(EmptyAgg, AllSamples, pct)

------------------------------------------------------------------------------
(* Inputs.  A run is drawn from four families of synthetic scenes; each    *)
(* varies one aspect of the input and keeps the others at a default.       *)
(* The world point of pixel (y, x) of image i is                           *)
(*   <<i * shift + step * x,  height + i * shift + step * y,  0>>,         *)
(* except at the pixel named by hole, which has a non-finite coordinate;   *)
(* its confidence is cbase + cstep * ((x + y + i) % 3); the original       *)
(* image is oscale times the grid in each axis and its pixel (oy, ox) has  *)
(* colour Palette[(phase + i + oy + ox) % Len(Palette) + 1].               *)

Palette ==
    << <<120, 110, 100>>,      \* neutral: no heuristic fires
       <<5, 5, 5>>,            \* black
       <<10, 10, 200>>,        \* blue-dominant
       <<10, 10, 11>>,         \* dark, not blue-dominant
       <<240, 240, 240>>,      \* white
       <<255, 255, 190>>,      \* bright but colourful
       <<250, 230, 215>>,      \* bright, deviation just under the limit
       <<30, 30, 30>> >>       \* mean exactly at the black threshold

Percentages == {0, 50, 100, 200}

NoHole == <<-1, -1, -1>>
Holes == {<<0, 0, 0>>, <<NumImages - 1, 0, 0>>}

\* Overlapping views: the geometry varies, every sample is accepted.
GeometryCases ==
    [H : 1..MaxDim, W : 1..MaxDim, stride : 1..MaxStride,
     shift : -MaxShift..MaxShift, step : -MaxStep..MaxStep,
     height : {0}, hole : {NoHole}, cbase : {1}, cstep : {0}, phase : {0}, oscale : {1},
     pct : {50}, sky : {FALSE}, black : {FALSE}, white : {FALSE}]

\* One pixel has a non-finite coordinate.
HoleCases ==
    [H : 1..MaxDim, W : 1..MaxDim, stride : 1..MaxStride,
     shift : {1}, step : {1},
     height : {0}, hole : Holes, cbase : {1}, cstep : {0}, phase : {0}, oscale : {1},
     pct : {50}, sky : {FALSE}, black : {FALSE}, white : {FALSE}]

\* The colours, the height of the scene and the filter flags vary.
FilterCases ==
    [H : 1..2, W : 1..MaxDim, stride : 1..MaxStride,
     shift : {1}, step : {1},
     height : {0, 400}, hole : {NoHole}, cbase : {1}, cstep : {0},
     phase : 0..(Len(Palette) - 1), oscale : {1, 2},
     pct : {50}, sky : BOOLEAN, black : BOOLEAN, white : BOOLEAN]

\* The confidences and the threshold percentage vary.
ThresholdCases ==
    [H : 1..MaxDim, W : 1..MaxDim, stride : 1..MaxStride,
     shift : {1}, step : {1},
     height : {0}, hole : {NoHole}, cbase : -MaxConf..MaxConf, cstep : {-1, 0, 1},
     phase : {0}, oscale : {1},
     pct : Percentages, sky : {FALSE}, black : {FALSE}, white : {FALSE}]

Cases == GeometryCases \cup HoleCases \cup FilterCases \cup ThresholdCases

WorldPoint(c, i, y, x) ==
    IF <<i, y, x>> = c.hole
    THEN IF i = 0 THEN <<c.step * x, NaN, 0>> ELSE <<Inf, c.height, 0>>
    ELSE <<i * c.shift + c.step * x, c.height + i * c.shift + c.step * y, 0>>

Init ==
    \E c \in Cases :
        /\ world_points = [i \in 0..(NumImages - 1) |-> [y \in 0..(c.H - 1) |->
                              [x \in 0..(c.W - 1) |-> WorldPoint(c, i, y, x)]]]
        /\ confidences = [i \in 0..(NumImages - 1) |-> [y \in 0..(c.H - 1) |->
                              [x \in 0..(c.W - 1) |-> c.cbase + c.cstep * ((x + y + i) % 3)]]]
        /\ original_images =
               [i \in 0..(NumImages - 1) |-> [oy \in 0..(c.oscale * c.H - 1) |->
                   [ox \in 0..(c.oscale * c.W - 1) |->
                       Palette[((c.phase + i + oy + ox) % Len(Palette)) + 1]]]]
        /\ conf_pct = c.pct
        /\ stride = c.stride
        /\ mask_sky = c.sky
        /\ mask_black_bg = c.black
        /\ mask_white_bg = c.white
        /\ pc = "loop"
        /\ img_idx = 0
        /\ yi = 1
        /\ xi = 1
        /\ points3D = << >>
        /\ point_indices = << >>
        /\ image_points2D = [i \in 0..(NumImages - 1) |-> << >>]
        /\ visits = << >>
        /\ files = [format |-> "none"]

\* One iteration of the innermost loop, and the move to the next sample.
ProcessSample ==
    /\ pc = "loop"
    /\ img_idx \in Images
    /\ LET y == Ys(img_idx)[yi]
           x == Xs(img_idx)[xi]
           agg == Body([points3D |-> points3D, point_indices |-> point_indices,
                        image_points2D |-> image_points2D], img_idx, y, x, conf_pct)
       IN  /\ points3D' = agg.points3D
           /\ point_indices' = agg.point_indices
           /\ image_points2D' = agg.image_points2D
           /\ visits' = Append(visits, <<img_idx, y, x>>)
    /\ IF xi < Len(Xs(img_idx))
       THEN xi' = xi + 1 /\ UNCHANGED <<yi, img_idx>>
       ELSE /\ xi' = 1
            /\ IF yi < Len(Ys(img_idx))
               THEN yi' = yi + 1 /\ UNCHANGED img_idx
               ELSE yi' = 1 /\ img_idx' = img_idx + 1
    /\ UNCHANGED <<inputs, pc, files>>

\* The image loop is exhausted: return points3D, image_points2D.
Return ==
    /\ pc = "loop"
    /\ img_idx \notin Images
    /\ pc' = "done"
    /\ UNCHANGED <<inputs, img_idx, yi, xi, points3D, point_indices,
                   image_points2D, visits, files>>

------------------------------------------------------------------------------
(* The writers.  A text file is the list of its lines, a line the list of  *)
(* its space-separated tokens; an integer is written as its decimal        *)
(* digits.  A binary file is the list of the fields struct.pack emits, an  *)
(* integer field as its little-endian bytes.  A float is carried as the    *)
(* value it stands for in both forms (its digits and its eight bytes are   *)
(* not modelled).  The poses, intrinsics and names are opaque inputs of    *)
(* main; the values below stand for them.                                  *)

\* str(n) for an int n >= 0: its decimal digits.
RECURSIVE Digits(_)
Digits(n) == IF n < 10 THEN <<n>> ELSE Digits(n \div 10) \o <<n % 10>>

IntTok(n)   == [t |-> "int", v |-> Digits(n)]
FloatTok(v) == [t |-> "float", v |-> <<v>>]
StrTok(str) == [t |-> "str", v |-> str]
Line(tokens) == [comment |-> FALSE, tokens |-> tokens]
Comment(tokens) == [comment |-> TRUE, tokens |-> tokens]

\* struct.pack('<Q' | '<I' | '<B', n): w little-endian bytes.
RECURSIVE LittleEndian(_, _)
LittleEndian(n, w) ==
    IF w = 0 THEN << >> ELSE <<n % 256>> \o LittleEndian(n \div 256, w - 1)

PackQ(n) == [fmt |-> "Q", bytes |-> LittleEndian(n, 8)]
PackI(n) == [fmt |-> "I", bytes |-> LittleEndian(n, 4)]
PackB(n) == [fmt |-> "B", bytes |-> LittleEndian(n, 1)]
PackD(v) == [fmt |-> "d", bytes |-> <<v>>]
Raw(str) == [fmt |-> "s", bytes |-> str]

\* astype(np.uint8)
AsUint8(n) == n % 256

\* The arguments main passes besides the aggregator's output.
ImageIds == Range(0, Cardinality(Images), 1)                \* range(len(quaternions))
intrinsic(i) == [fx |-> 500 + i, fy |-> 510 + i, cx |-> GridW(i) * 100, cy |-> GridH(i) * 100]
quaternion(i) == <<1000 - i, i, 2 * i, 3 * i>>
translation(i) == <<i, -i, 10 * i>>
image_name(i) == <<"i", "m", "g">> \o [k \in 1..Len(Digits(i)) |-> ToString(Digits(i)[k])]
image_width == GridW(0)                                     \* predictions["depth"].shape[2]
image_height == GridH(0)                                    \* predictions["depth"].shape[1]

write_colmap_cameras_txt ==
    <<Comment(<<IntTok(Len(ImageIds))>>)>> \o
    [k \in 1..Len(ImageIds) |->
        LET i == ImageIds[k] IN
        Line(<<IntTok(i + 1), StrTok(<<"PINHOLE">>), IntTok(image_width),
               IntTok(image_height), FloatTok(intrinsic(i).fx), FloatTok(intrinsic(i).fy),
               FloatTok(intrinsic(i).cx), FloatTok(intrinsic(i).cy)>>)]

\* " ".join(f"{x} {y} {point3d_id+1}" for x, y, point3d_id in image_points2D[i])
KeypointsTxt(kps) ==
    Concat([k \in 1..Len(kps) |->
               <<IntTok(kps[k][1]), IntTok(kps[k][2]), IntTok(kps[k][3] + 1)>>])

write_colmap_images_txt ==
    <<Comment(<<IntTok(Len(ImageIds))>>)>> \o
    Concat([k \in 1..Len(ImageIds) |->
        LET i == ImageIds[k]
            q == quaternion(i)
            tr == translation(i)
        IN  <<Line(<<IntTok(i + 1), FloatTok(q[1]), FloatTok(q[2]), FloatTok(q[3]),
                     FloatTok(q[4]), FloatTok(tr[1]), FloatTok(tr[2]), FloatTok(tr[3]),
                     IntTok(i + 1), StrTok(image_name(i))>>),
              Line(KeypointsTxt(image_points2D[i]))>>])

\* " ".join(f"{img_id+1} {point2d_idx}" for img_id, point2d_idx in point["track"])
TrackTxt(track) ==
    Concat([e \in 1..Len(track) |-> <<IntTok(track[e][1] + 1), IntTok(track[e][2])>>])

\* int(r) of a uint8 channel is the channel's value.
write_colmap_points3D_txt ==
    <<Comment(<<IntTok(Len(points3D))>>)>> \o
    [k \in 1..Len(points3D) |->
        LET point == points3D[k] IN
        Line(<<IntTok(point.id + 1), FloatTok(point.xyz[1]), FloatTok(point.xyz[2]),
               FloatTok(point.xyz[3]), IntTok(point.rgb[1]), IntTok(point.rgb[2]),
               IntTok(point.rgb[3]), FloatTok(point.error)>> \o TrackTxt(point.track))]

write_colmap_cameras_bin ==
    <<PackQ(Len(ImageIds))>> \o
    Concat([k \in 1..Len(ImageIds) |->
        LET i == ImageIds[k] IN
        <<PackI(i + 1), PackI(1), PackQ(image_width), PackQ(image_height),
          PackD(intrinsic(i).fx), PackD(intrinsic(i).fy),
          PackD(intrinsic(i).cx), PackD(intrinsic(i).cy)>>])

\* for x, y, point3d_id in points: pack('<dd', float(x), float(y)); pack('<Q', point3d_id + 1)
KeypointsBin(kps) ==
    Concat([k \in 1..Len(kps) |->
               <<PackD(kps[k][1]), PackD(kps[k][2]), PackQ(kps[k][3] + 1)>>])

write_colmap_images_bin ==
    <<PackQ(Len(ImageIds))>> \o
    Concat([k \in 1..Len(ImageIds) |->
        LET i == ImageIds[k]
            q == quaternion(i)
            tr == translation(i)
            points == image_points2D[i]
        IN  <<PackI(i + 1), PackD(q[1]), PackD(q[2]), PackD(q[3]), PackD(q[4]),
              PackD(tr[1]), PackD(tr[2]), PackD(tr[3]), PackI(i + 1),
              PackI(Len(image_name(i))), Raw(image_name(i)), PackQ(Len(points))>>
            \o KeypointsBin(points)])

\* Track entries packed with the 0-based image index.
TrackBinZeroBased(track) ==
    Concat([e \in 1..Len(track) |-> <<PackI(track[e][1]), PackI(track[e][2])>>])

\* for img_id, point2d_idx in track: pack('<II', img_id + 1, point2d_idx)
TrackBin(track) ==
    Concat([e \in 1..Len(track) |-> <<PackI(track[e][1] + 1), PackI(track[e][2])>>])

write_colmap_points3D_bin ==
    <<PackQ(Len(points3D))>> \o
    Concat([k \in 1..Len(points3D) |->
        LET point == points3D[k] IN
        <<PackQ(point.id + 1), PackD(point.xyz[1]), PackD(point.xyz[2]),
          PackD(point.xyz[3]), PackB(AsUint8(point.rgb[1])), PackB(AsUint8(point.rgb[2])),
          PackB(AsUint8(point.rgb[3])), PackD(point.error), PackQ(Len(point.track))>>
        \o TrackBin(point.track)])

TextFiles ==
    [format |-> "txt", cameras |-> write_colmap_cameras_txt,
     images |-> write_colmap_images_txt, points3D |-> write_colmap_points3D_txt]

BinaryFiles ==
    [format |-> "bin", cameras |-> write_colmap_cameras_bin,
     images |-> write_colmap_images_bin, points3D |-> write_colmap_points3D_bin]

\* main without --binary: the three text writers.
WriteText ==
    /\ pc = "done"
    /\ files' = TextFiles
    /\ pc' = "written"
    /\ UNCHANGED <<inputs, img_idx, yi, xi, points3D, point_indices,
                   image_points2D, visits>>

\* main with --binary: the three binary writers.
WriteBinary ==
    /\ pc = "done"
    /\ files' = BinaryFiles
    /\ pc' = "written"
    /\ UNCHANGED <<inputs, img_idx, yi, xi, points3D, point_indices,
                   image_points2D, visits>>

Next == ProcessSample \/ Return \/ WriteText \/ WriteBinary

Spec == Init /\ [][Next]_vars

------------------------------------------------------------------------------
(* Properties. *)

(* Readers of the two file forms, into one data model: cameras             *)
(* [id, model, width, height, params], images [id, qvec, tvec, camera_id,  *)
(* name, points2D] and points [id, xyz, rgb, error, track].                *)

RECURSIVE ParseInt(_)
ParseInt(digits) ==
    IF Len(digits) = 1 THEN digits[1]
    ELSE 10 * ParseInt(SubSeq(digits, 1, Len(digits) - 1)) + digits[Len(digits)]

RECURSIVE Unpack(_)
Unpack(bytes) == IF bytes = << >> THEN 0 ELSE Head(bytes) + 256 * Unpack(Tail(bytes))

IsData(line) == ~line.comment
DataLines(lines) == SelectSeq(lines, IsData)

ReadCamerasTxt(lines) ==
    [k \in 1..Len(DataLines(lines)) |->
        LET tk == DataLines(lines)[k].tokens IN
        [id |-> ParseInt(tk[1].v), model |-> tk[2].v[1], width |-> ParseInt(tk[3].v),
         height |-> ParseInt(tk[4].v),
         params |-> <<tk[5].v[1], tk[6].v[1], tk[7].v[1], tk[8].v[1]>>]]

ReadCamerasBin(fields) ==
    [k \in 1..Unpack(fields[1].bytes) |->
        LET at == 2 + 8 * (k - 1) IN
        [id |-> Unpack(fields[at].bytes),
         model |-> IF Unpack(fields[at + 1].bytes) = 1 THEN "PINHOLE" ELSE "OTHER",
         width |-> Unpack(fields[at + 2].bytes), height |-> Unpack(fields[at + 3].bytes),
         params |-> <<fields[at + 4].bytes[1], fields[at + 5].bytes[1],
                      fields[at + 6].bytes[1], fields[at + 7].bytes[1]>>]]

ReadImagesTxt(lines) ==
    [k \in 1..(Len(DataLines(lines)) \div 2) |->
        LET tk == DataLines(lines)[2 * k - 1].tokens
            kp == DataLines(lines)[2 * k].tokens
        IN  [id |-> ParseInt(tk[1].v),
             qvec |-> <<tk[2].v[1], tk[3].v[1], tk[4].v[1], tk[5].v[1]>>,
             tvec |-> <<tk[6].v[1], tk[7].v[1], tk[8].v[1]>>,
             camera_id |-> ParseInt(tk[9].v), name |-> tk[10].v,
             points2D |-> [j \in 1..(Len(kp) \div 3) |->
                 <<ParseInt(kp[3 * j - 2].v), ParseInt(kp[3 * j - 1].v),
                   ParseInt(kp[3 * j].v)>>]]]

RECURSIVE ReadImagesBinFrom(_, _, _)
ReadImagesBinFrom(fields, at, n) ==
    IF n = 0 THEN << >>
    ELSE LET count == Unpack(fields[at + 11].bytes)
             image == [id |-> Unpack(fields[at].bytes),
                       qvec |-> <<fields[at + 1].bytes[1], fields[at + 2].bytes[1],
                                  fields[at + 3].bytes[1], fields[at + 4].bytes[1]>>,
                       tvec |-> <<fields[at + 5].bytes[1], fields[at + 6].bytes[1],
                                  fields[at + 7].bytes[1]>>,
                       camera_id |-> Unpack(fields[at + 8].bytes),
                       name |-> SubSeq(fields[at + 10].bytes, 1, Unpack(fields[at + 9].bytes)),
                       points2D |-> [j \in 1..count |->
                           <<fields[at + 9 + 3 * j].bytes[1], fields[at + 10 + 3 * j].bytes[1],
                             Unpack(fields[at + 11 + 3 * j].bytes)>>]]
         IN  <<image>> \o ReadImagesBinFrom(fields, at + 12 + 3 * count, n - 1)

ReadImagesBin(fields) == ReadImagesBinFrom(fields, 2, Unpack(fields[1].bytes))

ReadPointsTxt(lines) ==
    [k \in 1..Len(DataLines(lines)) |->
        LET tk == DataLines(lines)[k].tokens IN
        [id |-> ParseInt(tk[1].v),
         xyz |-> <<tk[2].v[1], tk[3].v[1], tk[4].v[1]>>,
         rgb |-> <<ParseInt(tk[5].v), ParseInt(tk[6].v), ParseInt(tk[7].v)>>,
         error |-> tk[8].v[1],
         track |-> [j \in 1..((Len(tk) - 8) \div 2) |->
             <<ParseInt(tk[7 + 2 * j].v), ParseInt(tk[8 + 2 * j].v)>>]]]

RECURSIVE ReadPointsBinFrom(_, _, _)
ReadPointsBinFrom(fields, at, n) ==
    IF n = 0 THEN << >>
    ELSE LET count == Unpack(fields[at + 8].bytes)
             point == [id |-> Unpack(fields[at].bytes),
                       xyz |-> <<fields[at + 1].bytes[1], fields[at + 2].bytes[1],
                                 fields[at + 3].bytes[1]>>,
                       rgb |-> <<Unpack(fields[at + 4].bytes), Unpack(fields[at + 5].bytes),
                                 Unpack(fields[at + 6].bytes)>>,
                       error |-> fields[at + 7].bytes[1],
                       track |-> [j \in 1..count |->
                           <<Unpack(fields[at + 7 + 2 * j].bytes),
                             Unpack(fields[at + 8 + 2 * j].bytes)>>]]
         IN  <<point>> \o ReadPointsBinFrom(fields, at + 9 + 2 * count, n - 1)

ReadPointsBin(fields) == ReadPointsBinFrom(fields, 2, Unpack(fields[1].bytes))

\* The collections a set of files decodes to.
Read(f) ==
    IF f.format = "txt"
    THEN [cameras |-> ReadCamerasTxt(f.cameras), images |-> ReadImagesTxt(f.images),
          points |-> ReadPointsTxt(f.points3D)]
    ELSE [cameras |-> ReadCamerasBin(f.cameras), images |-> ReadImagesBin(f.images),
          points |-> ReadPointsBin(f.points3D)]

Points == 1..Len(points3D)
Keypoints(i) == 1..Len(image_points2D[i])

\* Point p's track holds, at position e, the entry (i, k).
TrackHolds(p, e, i, k) == points3D[p].track[e] = <<i, k>>

\* C1: in every state of the run, every track entry of every point names a
\* keypoint that exists in that image's list and carries the point's id, and
\* every keypoint of every image is in exactly one track, exactly once.
TrackKeypointConsistency ==
    /\ \A p \in Points : \A e \in 1..Len(points3D[p].track) :
          LET i == points3D[p].track[e][1]
              k == points3D[p].track[e][2]
          IN  /\ i \in Images
              /\ k + 1 \in Keypoints(i)
              /\ image_points2D[i][k + 1][3] = points3D[p].id
    /\ \A i \in Images : \A k \in Keypoints(i) :
          \E p \in Points : \E e \in 1..Len(points3D[p].track) :
              /\ TrackHolds(p, e, i, k - 1)
              /\ \A q \in Points : \A f \in 1..Len(points3D[q].track) :
                    TrackHolds(q, f, i, k - 1) => (q = p /\ f = e)

\* A finished run in which some point is observed in both images and some
\* image holds two keypoints of one point.
TrackKeypointWitness ==
    /\ pc = "done"
    /\ \E p \in Points :
          /\ Len(points3D[p].track) >= 3
          /\ \E e1, e2 \in 1..Len(points3D[p].track) :
                points3D[p].track[e1][1] # points3D[p].track[e2][1]

\* The quantized triple of the sample behind keypoint k of image i.
KeypointCell(i, k) ==
    Quantized(world_points[i][image_points2D[i][k][2]][image_points2D[i][k][1]], Scale)

\* C2: any two accepted samples carry the same point id exactly when their
\* coordinates, times 100 and rounded, are the same integer triple.
DedupByQuantizedTriple ==
    \A i1, i2 \in Images : \A k1 \in Keypoints(i1), k2 \in Keypoints(i2) :
        (KeypointCell(i1, k1) = KeypointCell(i2, k2))
            <=> (image_points2D[i1][k1][3] = image_points2D[i2][k2][3])

\* The half of C2 that the hashing keeps: equal triples give equal ids.
SameCellSameId ==
    \A i1, i2 \in Images : \A k1 \in Keypoints(i1), k2 \in Keypoints(i2) :
        (KeypointCell(i1, k1) = KeypointCell(i2, k2))
            => (image_points2D[i1][k1][3] = image_points2D[i2][k2][3])

\* All the track entries of all the points.
TrackEntries ==
    UNION {{points3D[p].track[e] : e \in 1..Len(points3D[p].track)} : p \in Points}

\* C3: in every state, the point at position k of points3D has id k, the
\* dedup map's values are exactly the ids 0..P-1, the keypoint indices that
\* the tracks record for an image are exactly 0..K-1 with entry (i, k) held
\* by the point that keypoint k of image i names, and either writer
\* persists the point at position k under id k + 1.
DenseIds ==
    /\ \A k \in Points : points3D[k].id = k - 1
    /\ {point_indices[h] : h \in DOMAIN point_indices} = 0..(Len(points3D) - 1)
    /\ \A i \in Images :
          /\ {t[2] : t \in {u \in TrackEntries : u[1] = i}} = 0..(Len(image_points2D[i]) - 1)
          /\ \A k \in Keypoints(i) :
                \E e \in 1..Len(points3D[image_points2D[i][k][3] + 1].track) :
                    points3D[image_points2D[i][k][3] + 1].track[e] = <<i, k - 1>>
    /\ pc = "written" =>
          LET persisted == Read(files).points IN
          /\ Len(persisted) = Len(points3D)
          /\ \A k \in Points : persisted[k].id = points3D[k].id + 1

\* Files were written for a run that made at least three points, one of
\* them observed more than once.
DenseIdsWitness ==
    /\ pc = "written"
    /\ Len(points3D) >= 3
    /\ \E p \in Points : Len(points3D[p].track) >= 2

\* Every track is in processing order: its first entry is the sample that
\* created the point, and along it images do not decrease and keypoint
\* indices within one image increase.
TrackOrdered ==
    \A p \in Points :
        LET track == points3D[p].track IN
        /\ image_points2D[track[1][1]][track[1][2] + 1][3] = points3D[p].id
        /\ points3D[p].xyz =
              world_points[track[1][1]][image_points2D[track[1][1]][track[1][2] + 1][2]]
                                      [image_points2D[track[1][1]][track[1][2] + 1][1]]
        /\ \A e \in 1..(Len(track) - 1) :
              \/ track[e][1] < track[e + 1][1]
              \/ track[e][1] = track[e + 1][1] /\ track[e][2] < track[e + 1][2]

\* Two images of 4 x 4 grids sampled at stride 2, every sample accepted, and
\* the only two samples with one quantized position are the two at (0, 0).
SharedCornerScenario ==
    /\ pc = "done"
    /\ Images = {0, 1}
    /\ \A i \in Images : GridH(i) = 4 /\ GridW(i) = 4 /\ Len(image_points2D[i]) = 4
    /\ stride = 2
    /\ \A i1, i2 \in Images : \A k1 \in Keypoints(i1), k2 \in Keypoints(i2) :
          (<<i1, k1>> # <<i2, k2>> /\ KeypointCell(i1, k1) = KeypointCell(i2, k2))
              => ({i1, i2} = {0, 1} /\ k1 = 1 /\ k2 = 1)
    /\ KeypointCell(0, 1) = KeypointCell(1, 1)

\* C4: tracks are in processing order, and in the shared-corner scenario
\* the run ends with 7 points, the shared one with id 0 and track
\* [(0, 0), (1, 0)].
TrackOrderAndSharedCorner ==
    /\ TrackOrdered
    /\ SharedCornerScenario =>
          /\ Len(points3D) = 7
          /\ points3D[1].id = 0
          /\ points3D[1].track = <<<<0, 0>>, <<1, 0>>>>

\* The shared-corner scenario ending as C4 says (it does when no two of the
\* seven quantized triples differ only by -1 against -2).
SharedCornerAsClaimed ==
    /\ SharedCornerScenario
    /\ Len(points3D) = 7
    /\ points3D[1].track = <<<<0, 0>>, <<1, 0>>>>

\* Sample (y, x) of image i has a keypoint.
HasKeypoint(i, y, x) ==
    \E k \in Keypoints(i) : image_points2D[i][k][1] = x /\ image_points2D[i][k][2] = y

VisitSet == {visits[n] : n \in 1..Len(visits)}
NumKeypoints(agg) ==
    LET RECURSIVE Total(_)
        Total(S) == IF S = {} THEN 0
                    ELSE LET i == CHOOSE j \in S : TRUE
                         IN  Len(agg.image_points2D[i]) + Total(S \ {i})
    IN  Total(DOMAIN agg.image_points2D)

\* C5: with threshold percentage 0 and no mask flag, every visited sample
\* with all-finite coordinates is accepted whatever its confidence; so two
\* images of 4 x 4 grids at stride 2 end with keypoints at (0,0), (0,2),
\* (2,0), (2,2) each, and with 8 points when the 8 quantized positions differ.
ZeroThresholdAcceptsAllFinite ==
    (conf_pct = 0 /\ ~mask_sky /\ ~mask_black_bg /\ ~mask_white_bg) =>
        /\ \A v \in VisitSet :
              AllFinite(world_points[v[1]][v[2]][v[3]]) => HasKeypoint(v[1], v[2], v[3])
        /\ (pc = "done" /\ stride = 2 /\ \A i \in Images : GridH(i) = 4 /\ GridW(i) = 4) =>
              /\ \A i \in Images :
                    {<<image_points2D[i][k][2], image_points2D[i][k][1]>> : k \in Keypoints(i)}
                        = {<<0, 0>>, <<0, 2>>, <<2, 0>>, <<2, 2>>}
              /\ (\A i1, i2 \in Images : \A k1 \in Keypoints(i1), k2 \in Keypoints(i2) :
                     <<i1, k1>> # <<i2, k2>> => KeypointCell(i1, k1) # KeypointCell(i2, k2))
                    => Len(points3D) = Cardinality(Images) * 4

\* What the comparison of the code gives at percentage 0: the finite samples
\* with confidence above 0 are accepted, the others are not.
ZeroThresholdAcceptsPositive ==
    (conf_pct = 0 /\ ~mask_sky /\ ~mask_black_bg /\ ~mask_white_bg) =>
        \A v \in VisitSet :
            HasKeypoint(v[1], v[2], v[3]) <=>
                (AllFinite(world_points[v[1]][v[2]][v[3]]) /\ confidences[v[1]][v[2]][v[3]] > 0)

\* C6: a run under a percentage at least the one of this run accepts no more
\* samples and makes no more points than this run.
ThresholdMonotone ==
    pc = "done" =>
        \A p2 \in Percentages :
            p2 >= conf_pct =>
                /\ NumKeypoints(filter_and_prepare_points(p2))
                      <= NumKeypoints([image_points2D |-> image_points2D])
                /\ Len(filter_and_prepare_points(p2).points3D) <= Len(points3D)

\* C6 on the grids whose largest confidence is not negative.
ThresholdMonotoneNonNegativeMax ==
    (pc = "done" /\ max_conf >= 0) =>
        \A p2 \in Percentages :
            p2 >= conf_pct =>
                /\ NumKeypoints(filter_and_prepare_points(p2))
                      <= NumKeypoints([image_points2D |-> image_points2D])
                /\ Len(filter_and_prepare_points(p2).points3D) <= Len(points3D)

\* The loops, step by step, build what the whole call returns.
RunIsFold ==
    pc = "done" =>
        filter_and_prepare_points(conf_pct) =
            [points3D |-> points3D, point_indices |-> point_indices,
             image_points2D |-> image_points2D]

CeilDiv(a, b) == (a + b - 1) \div b

\* C7: the loops visit, each once, exactly the (y, x) with y and x multiples
\* of the stride inside the grid, at most ceil(H/S) * ceil(W/S) per image,
\* and every sample that stride 2S visits is among those stride S visits.
StrideSampling ==
    /\ \A n, m \in 1..Len(visits) : visits[n] = visits[m] => n = m
    /\ \A v \in VisitSet :
          /\ v[1] \in Images
          /\ v[2] \in 0..(GridH(v[1]) - 1) /\ v[2] % stride = 0
          /\ v[3] \in 0..(GridW(v[1]) - 1) /\ v[3] % stride = 0
    /\ \A i \in Images :
          Cardinality({v \in VisitSet : v[1] = i})
              <= CeilDiv(GridH(i), stride) * CeilDiv(GridW(i), stride)
    /\ pc = "done" =>
          \A i \in Images :
              /\ \A y \in 0..(GridH(i) - 1), x \in 0..(GridW(i) - 1) :
                    (y % stride = 0 /\ x % stride = 0) => <<i, y, x>> \in VisitSet
              /\ \A a \in 1..Len(Range(0, GridH(i), 2 * stride)),
                    b \in 1..Len(Range(0, GridW(i), 2 * stride)) :
                    <<i, Range(0, GridH(i), 2 * stride)[a],
                         Range(0, GridW(i), 2 * stride)[b]>> \in VisitSet
              /\ Len(Range(0, GridH(i), 2 * stride)) * Len(Range(0, GridW(i), 2 * stride))
                    <= Cardinality({v \in VisitSet : v[1] = i})

\* A finished run at stride 2 over grids of odd height and width above 2,
\* where stride 4 would visit fewer samples.
StrideSamplingWitness ==
    /\ pc = "done"
    /\ stride = 2
    /\ \E i \in Images :
          /\ GridH(i) = 3 /\ GridW(i) >= 3
          /\ Cardinality({v \in VisitSet : v[1] = i}) = 4

\* C8: the text files and the binary files written from one aggregator
\* output read back as the same cameras, images and points: as many of
\* each as there are inputs, in order, with ids 1, 2, ..., each image's
\* keypoints (x, y, point id + 1) and each point's colour and track
\* (image index + 1, keypoint index).
FormatsEquivalent ==
    pc = "written" =>
        LET read  == Read(files)
            other == Read(IF files.format = "txt" THEN BinaryFiles ELSE TextFiles)
        IN  /\ read = other
            /\ Len(read.cameras) = Cardinality(Images)
            /\ Len(read.images) = Cardinality(Images)
            /\ Len(read.points) = Len(points3D)
            /\ \A i \in Images :
                  /\ read.cameras[i + 1].id = i + 1
                  /\ read.images[i + 1].id = i + 1
                  /\ read.images[i + 1].camera_id = i + 1
                  /\ read.images[i + 1].points2D =
                        [k \in Keypoints(i) |->
                            <<image_points2D[i][k][1], image_points2D[i][k][2],
                              image_points2D[i][k][3] + 1>>]
            /\ \A p \in Points :
                  /\ read.points[p].id = points3D[p].id + 1
                  /\ read.points[p].rgb = points3D[p].rgb
                  /\ read.points[p].track =
                        [e \in 1..Len(points3D[p].track) |->
                            <<points3D[p].track[e][1] + 1, points3D[p].track[e][2]>>]

\* Binary files were written for an output with several points, one of
\* them with a track across both images.
FormatsEquivalentWitness ==
    /\ pc = "written"
    /\ files.format = "bin"
    /\ Len(points3D) >= 2
    /\ \E p \in Points : \E e \in 1..Len(points3D[p].track) :
          points3D[p].track[e][1] # points3D[p].track[1][1]

(* The three heuristics as the documentation words them, in exact          *)
(* arithmetic: 1.0 world unit is 200, b > 1.2 r is 10 b > 12 r, a mean m   *)
(* of three channels is their sum / 3, and the standard deviation is       *)
(* below 15 when the squares of 3 x - sum add up to less than 27 * 15^2.   *)
SkyFires(point, rgb) ==
    point[2] > 200 /\ 10 * rgb[3] > 12 * rgb[1] /\ 10 * rgb[3] > 12 * rgb[2]
BlackFires(rgb) == rgb[1] + rgb[2] + rgb[3] < 90
WhiteFires(rgb) ==
    LET sum == rgb[1] + rgb[2] + rgb[3] IN
    /\ sum > 690
    /\ (3 * rgb[1] - sum) * (3 * rgb[1] - sum) + (3 * rgb[2] - sum) * (3 * rgb[2] - sum)
          + (3 * rgb[3] - sum) * (3 * rgb[3] - sum) < 6075

EnabledHeuristicFires(i, y, x) ==
    \/ mask_sky /\ SkyFires(world_points[i][y][x], SampleColor(i, y, x))
    \/ mask_black_bg /\ BlackFires(SampleColor(i, y, x))
    \/ mask_white_bg /\ WhiteFires(SampleColor(i, y, x))

AboveCutoff(i, y, x) == 100 * confidences[i][y][x] > conf_pct * max_conf
Finite(i, y, x) == \A k \in 1..3 : world_points[i][y][x][k] \notin {NaN, Inf}

\* C9: a visited sample that passes the confidence and finiteness checks has
\* no keypoint exactly when an enabled heuristic fires on it.  With the black
\* filter on, a sample of colour (5,5,5) has none; with the sky filter on, a
\* point at height 2.0 has none if its colour is (10,10,200), and has one if
\* its colour is (10,10,11) (the other two filters being off).
HeuristicRule ==
    \A v \in VisitSet :
        LET i == v[1]
            y == v[2]
            x == v[3]
        IN  /\ (AboveCutoff(i, y, x) /\ Finite(i, y, x)) =>
                  (~HasKeypoint(i, y, x) <=> EnabledHeuristicFires(i, y, x))
            /\ (mask_black_bg /\ SampleColor(i, y, x) = <<5, 5, 5>>) => ~HasKeypoint(i, y, x)
            /\ (mask_sky /\ world_points[i][y][x][2] = 400
                   /\ SampleColor(i, y, x) = <<10, 10, 200>>) => ~HasKeypoint(i, y, x)
            /\ (mask_sky /\ ~mask_black_bg /\ ~mask_white_bg /\ world_points[i][y][x][2] = 400
                   /\ SampleColor(i, y, x) = <<10, 10, 11>> /\ AboveCutoff(i, y, x))
                  => HasKeypoint(i, y, x)

\* A finished run with only the sky filter on that visited, at height 2.0, a
\* sample of colour (10,10,200), which has no keypoint, and one of colour
\* (10,10,11), which has one.
HeuristicRuleWitness ==
    /\ pc = "done"
    /\ mask_sky /\ ~mask_black_bg /\ ~mask_white_bg
    /\ \E v, u \in VisitSet :
          /\ world_points[v[1]][v[2]][v[3]][2] = 400
          /\ SampleColor(v[1], v[2], v[3]) = <<10, 10, 200>>
          /\ ~HasKeypoint(v[1], v[2], v[3])
          /\ world_points[u[1]][u[2]][u[3]][2] = 400
          /\ SampleColor(u[1], u[2], u[3]) = <<10, 10, 11>>
          /\ HasKeypoint(u[1], u[2], u[3])

\* The sample the loops are at is one the body skips.
AtRejectedSample ==
    /\ pc = "loop"
    /\ img_idx \in Images
    /\ LET y == Ys(img_idx)[yi]
           x == Xs(img_idx)[xi]
       IN  \/ ~AboveCutoff(img_idx, y, x)
           \/ ~Finite(img_idx, y, x)
           \/ EnabledHeuristicFires(img_idx, y, x)

\* Every sample of image i is one the body skips.
AllRejected(i) ==
    \A y \in 0..(GridH(i) - 1), x \in 0..(GridW(i) - 1) :
        (y % stride = 0 /\ x % stride = 0) =>
            (~AboveCutoff(i, y, x) \/ ~Finite(i, y, x) \/ EnabledHeuristicFires(i, y, x))

\* C10: the step at a rejected sample changes neither the points, nor any
\* track, nor the dedup map, nor any keypoint list, and the loops go on; a
\* finished run leaves an image all of whose samples were rejected with no
\* keypoint and no point created from it, and if every image is so, no point.
RejectedSampleSkipped ==
    /\ [][AtRejectedSample =>
            /\ points3D' = points3D
            /\ point_indices' = point_indices
            /\ image_points2D' = image_points2D
            /\ pc' = "loop"
            /\ Len(visits') = Len(visits) + 1]_vars
    /\ [](pc = "done" =>
            /\ \A i \in Images : AllRejected(i) =>
                  /\ image_points2D[i] = << >>
                  /\ \A p \in Points : \A e \in 1..Len(points3D[p].track) :
                        points3D[p].track[e][1] # i
            /\ (\A i \in Images : AllRejected(i)) =>
                  /\ points3D = << >>
                  /\ point_indices = << >>
                  /\ image_points2D = [i \in Images |-> << >>])

\* A finished run whose first image had every sample rejected and whose
\* second image made the point with id 0.
RejectedSampleWitness ==
    /\ pc = "done"
    /\ AllRejected(0)
    /\ image_points2D[0] = << >>
    /\ Len(image_points2D[1]) > 0
    /\ points3D[1].id = 0
    /\ points3D[1].track[1] = <<1, 0>>

\* The visits, in order, that were accepted and whose quantized triple is cell.
AcceptedInCell(cell) ==
    {n \in 1..Len(visits) :
        /\ Accepted(visits[n][1], visits[n][2], visits[n][3], conf_pct)
        /\ Quantized(world_points[visits[n][1]][visits[n][2]][visits[n][3]], Scale) = cell}

\* Point p carries the position and colour of the first accepted sample of
\* the cell its position lies in, and error 1.
KeepsFirstSample(p) ==
    LET S == AcceptedInCell(Quantized(points3D[p].xyz, Scale))
    IN  /\ S # {}
        /\ LET n == CHOOSE m \in S : \A l \in S : m <= l
               v == visits[n]
           IN  /\ points3D[p].xyz = world_points[v[1]][v[2]][v[3]]
               /\ points3D[p].rgb = SampleColor(v[1], v[2], v[3])
        /\ points3D[p].error = 1

\* What one step may do to the points that exist before it.
PointsFrame ==
    /\ Len(points3D') >= Len(points3D)
    /\ \A k \in Points :
          /\ points3D'[k].id = points3D[k].id
          /\ points3D'[k].xyz = points3D[k].xyz
          /\ points3D'[k].rgb = points3D[k].rgb
          /\ points3D'[k].error = points3D[k].error
          /\ \/ points3D'[k].track = points3D[k].track
             \/ /\ Len(points3D'[k].track) = Len(points3D[k].track) + 1
                /\ SubSeq(points3D'[k].track, 1, Len(points3D[k].track)) = points3D[k].track
    /\ \A k1, k2 \in Points :
          (points3D'[k1].track # points3D[k1].track
              /\ points3D'[k2].track # points3D[k2].track) => k1 = k2

\* C11: no step removes a point or changes the id, position, colour or error
\* of a point that exists; a step changes at most one existing point, and
\* only by appending one entry at the end of its track; and in every state
\* each point has the position and colour of the first accepted sample that
\* quantized to its cell, and error 1.
PointsAppendOnly ==
    /\ [][PointsFrame]_vars
    /\ [](\A p \in Points : KeepsFirstSample(p))

\* A finished run in which a later observation of a point had another
\* position and another colour than the point keeps.
PointsAppendOnlyWitness ==
    /\ pc = "done"
    /\ \E p \in Points : \E e \in 2..Len(points3D[p].track) :
          LET kp == image_points2D[points3D[p].track[e][1]][points3D[p].track[e][2] + 1]
              i  == points3D[p].track[e][1]
          IN  /\ world_points[i][kp[2]][kp[1]] # points3D[p].xyz
              /\ SampleColor(i, kp[2], kp[1]) # points3D[p].rgb

====
